---- MODULE Spec2Model ----
(***************************************************************************)
(* Model of scripts/fetch_a_indices.py (index pipeline) and                *)
(* scripts/fetch_holdings_and_flows.py (holdings pipeline).                *)
(*                                                                         *)
(* A pandas DataFrame is a record [cols, rows]: cols is the sequence of    *)
(* column names and rows a sequence of functions from the column names to  *)
(* values.  A vendor call is an action whose input, the vendor's response, *)
(* is drawn from a bounded set: an exception, None, or a raw frame.        *)
(***************************************************************************)
EXTENDS Integers, Sequences, FiniteSets, TLC

VARIABLES
    pipeline,     \* "index" or "holdings": which script runs
    pc,           \* position of main()
    idx,          \* position of the for loop over INDEX_MAP / syms (1-based)
    ydf,          \* fetch_one: result of fetch_yahoo for the current index
    df,           \* main (indices): result of fetch_one; main (holdings): px
    frames,       \* main (indices): list of date/close/label projections
    merged,       \* the merged wide table (None before the first contribution)
    saved_count,  \* main (holdings): number of per-symbol files written
    syms,         \* main (holdings): the loaded symbol list
    attempt,      \* fetch_price: the attempt about to be made
    files,        \* the output directory: path -> frame written
    logs,         \* set of <<tag, instrument>> log lines printed
    calls,        \* vendor calls made: <<vendor, symbol>> -> count
    verdicts,     \* what each <<vendor, symbol>> answered last: raise, empty, missing, valid
    exit,         \* how the process ended: "" while running
    folded,       \* the date/close series folded into merged, in fold order
    returned,     \* what fetch_one / fetch_price returned for each instrument so far
    stale         \* the paths an earlier run left in the output directory

vars == <<pipeline, pc, idx, ydf, df, frames, merged, saved_count, syms,
          attempt, files, logs, calls, verdicts, exit, folded, returned,
          stale>>

----------------------------------------------------------------------------
(* Bounds of the model *)

\* a vendor response holds at most MaxRows rows
MaxRows == 2
\* calendar days are 1..MaxDate
MaxDate == 3
\* the first NumIndices entries of INDEX_MAP are fetched
NumIndices == 2
\* a holdings file holds at most MaxCells symbol cells
MaxCells == 2

----------------------------------------------------------------------------
(* Program constants *)

\* START: the first day of the lookback window
START == 2

max_retries == 2

\* the absent value of an outer join
NaN == -1

None == [isNone |-> TRUE]

INDEX_MAP ==
    << [name |-> "ShangZhengZhiShu", yahoo_symbol |-> "000001.SS", akshare_symbol |-> "sh000001"],
       [name |-> "HuShen300",        yahoo_symbol |-> "000300.SS", akshare_symbol |-> "sh000300"],
       [name |-> "ShenZhengChengZhi", yahoo_symbol |-> "399001.SZ", akshare_symbol |-> "sz399001"],
       [name |-> "ChuangYeBanZhi",   yahoo_symbol |-> "399006.SZ", akshare_symbol |-> "sz399006"] >>

Min(a, b) == IF a < b THEN a ELSE b

\* the entries of INDEX_MAP the model iterates over
Indices == SubSeq(INDEX_MAP, 1, Min(NumIndices, Len(INDEX_MAP)))

----------------------------------------------------------------------------
(* DataFrame helpers *)

SeqToSet(s) == { s[k] : k \in DOMAIN s }

\* Op applied to the value of e, which is computed once
With(e, Op(_)) == CHOOSE t \in { Op(v) : v \in {e} } : TRUE

HasCol(d, c) == c \in SeqToSet(d.cols)

\* DataFrame.empty: any axis of length zero
Empty(d) == Len(d.rows) = 0 \/ Len(d.cols) = 0

\* str.lower() on the column names the vendors use
Lower(c) ==
    CASE c = "Date"   -> "date"
      [] c = "Close"  -> "close"
      [] c = "Volume" -> "volume"
      [] OTHER        -> c

\* df[c] = v for a scalar v: a new column is appended, an existing one overwritten
Assign(d, c, v) ==
    LET newcols == IF HasCol(d, c) THEN d.cols ELSE Append(d.cols, c)
    IN [cols |-> newcols,
        rows |-> [k \in 1..Len(d.rows) |->
                    [x \in SeqToSet(newcols) |-> IF x = c THEN v ELSE d.rows[k][x]]]]

\* df[[c1, c2, ...]]: the caller checks that every name is a column (KeyError otherwise)
Project(d, cs) ==
    [cols |-> cs,
     rows |-> [k \in 1..Len(d.rows) |-> [x \in SeqToSet(cs) |-> d.rows[k][x]]]]

\* the first column of d that lower-cases to c
Original(d, c) == d.cols[CHOOSE k \in DOMAIN d.cols :
                            /\ Lower(d.cols[k]) = c
                            /\ \A j \in 1..(k-1) : Lower(d.cols[j]) # c]

\* rename(columns=lambda x: str(x).lower())
RenameLower(d) ==
    LET newcols == [k \in DOMAIN d.cols |-> Lower(d.cols[k])]
    IN [cols |-> newcols,
        rows |-> [k \in 1..Len(d.rows) |->
                    [x \in SeqToSet(newcols) |-> d.rows[k][Original(d, x)]]]]

\* rename(columns={old: new})
Rename(d, old, new) ==
    LET newcols == [k \in DOMAIN d.cols |-> IF d.cols[k] = old THEN new ELSE d.cols[k]]
    IN [cols |-> newcols,
        rows |-> [k \in 1..Len(d.rows) |->
                    [x \in SeqToSet(newcols) |-> IF x = new THEN d.rows[k][old] ELSE d.rows[k][x]]]]

\* reset_index(): the index becomes the first column, named "index" when it has no name
ResetIndex(r) ==
    LET name == IF r.index = "" THEN "index" ELSE r.index
        newcols == <<name>> \o r.cols
    IN [cols |-> newcols,
        rows |-> [k \in 1..Len(r.rows) |->
                    [x \in SeqToSet(newcols) |-> IF x = name THEN r.idx[k] ELSE r.rows[k][x]]]]

\* out[out["date"] >= START].reset_index(drop=True)
FilterStart(d) ==
    [cols |-> d.cols, rows |-> SelectSeq(d.rows, LAMBDA r : r["date"] >= START)]

RECURSIVE InsertByDate(_, _)
\* insert row r after the rows of the sorted sequence s whose date is <= r's
InsertByDate(s, r) ==
    IF s = <<>> THEN <<r>>
    ELSE IF Head(s)["date"] <= r["date"] THEN <<Head(s)>> \o InsertByDate(Tail(s), r)
    ELSE <<r>> \o s

RECURSIVE SortRows(_)
SortRows(s) ==
    IF s = <<>> THEN <<>>
    ELSE With(SortRows(SubSeq(s, 1, Len(s) - 1)), LAMBDA t : InsertByDate(t, s[Len(s)]))

\* the sort is left out
NotSorted(d) == d

\* sort_values("date"): numpy sorts short arrays by insertion, which keeps ties in order
SortValues(d) == [cols |-> d.cols, rows |-> SortRows(d.rows)]

----------------------------------------------------------------------------
(* pd.merge(left, right, on="date", how="outer") *)

\* the name pandas gives a column that both sides hold: name + suffix
Suffixed(c, suffix) ==
    CASE c = "A" /\ suffix = "_x" -> "A_x"
      [] c = "A" /\ suffix = "_y" -> "A_y"
      [] c = "B" /\ suffix = "_x" -> "B_x"
      [] c = "B" /\ suffix = "_y" -> "B_y"
      [] OTHER -> c

DatesOf(d) == { d.rows[k]["date"] : k \in DOMAIN d.rows }

RECURSIVE Ascending(_)
\* the elements of a set of dates in ascending order
Ascending(S) ==
    IF S = {} THEN <<>>
    ELSE LET m == CHOOSE x \in S : \A y \in S : x <= y
         IN <<m>> \o Ascending(S \ {m})

RECURSIVE Concat(_)
\* the concatenation of a sequence of sequences
Concat(ss) == IF ss = <<>> THEN <<>> ELSE Head(ss) \o Concat(Tail(ss))

\* how="left": only the keys of the left side
JoinKeysLeft(left, right) == DatesOf(left)

\* how="outer": the keys of both sides
JoinKeys(left, right) == DatesOf(left) \cup DatesOf(right)

Merge(left, right) ==
    LET overlap == (SeqToSet(left.cols) \cap SeqToSet(right.cols)) \ {"date"}
        LName(c) == IF c \in overlap THEN Suffixed(c, "_x") ELSE c
        RName(c) == IF c \in overlap THEN Suffixed(c, "_y") ELSE c
        rcols == SelectSeq(right.cols, LAMBDA c : c # "date")
        newcols == [k \in DOMAIN left.cols |-> LName(left.cols[k])]
                   \o [k \in DOMAIN rcols |-> RName(rcols[k])]
        FromLeft(x) == \E c \in SeqToSet(left.cols) : LName(c) = x
        LOld(x) == CHOOSE c \in SeqToSet(left.cols) : LName(c) = x
        ROld(x) == CHOOSE c \in SeqToSet(rcols) : RName(c) = x
        \* one output row: l and r are rows of the two sides, or None when the
        \* side has no row of that date
        Joined(d, l, r) ==
            [x \in SeqToSet(newcols) |->
                IF x = "date" THEN d
                ELSE IF FromLeft(x) THEN (IF l = None THEN NaN ELSE l[LOld(x)])
                ELSE (IF r = None THEN NaN ELSE r[ROld(x)])]
        RowsFor(d) ==
            LET L == SelectSeq(left.rows, LAMBDA r : r["date"] = d)
                R == SelectSeq(right.rows, LAMBDA r : r["date"] = d)
            IN IF L = <<>> THEN [k \in DOMAIN R |-> Joined(d, None, R[k])]
               ELSE IF R = <<>> THEN [k \in DOMAIN L |-> Joined(d, L[k], None)]
               ELSE [k \in 1..(Len(L) * Len(R)) |->
                        Joined(d, L[((k - 1) \div Len(R)) + 1], R[((k - 1) % Len(R)) + 1])]
        keys == Ascending(JoinKeys(left, right))
    IN [cols |-> newcols,
        rows |-> Concat([k \in DOMAIN keys |-> RowsFor(keys[k])])]

----------------------------------------------------------------------------
(* Vendor responses: the inputs of the vendor calls *)

RECURSIVE SeqsUpTo(_, _)
\* the sequences over S of length at most n
SeqsUpTo(S, n) ==
    IF n = 0 THEN {<<>>}
    ELSE LET shorter == SeqsUpTo(S, n - 1)
         IN shorter \cup { Append(s, x) : s \in shorter, x \in S }

Dates == 1..MaxDate

DateSeqs == SeqsUpTo(Dates, MaxRows)

AllSymbols == <<"000001.SS", "000300.SS", "399001.SZ", "399006.SZ",
                "sh000001", "sh000300", "sz399001", "sz399006", "A", "B">>

SymCode(symbol) == CHOOSE k \in DOMAIN AllSymbols : AllSymbols[k] = symbol

\* the close a vendor quotes for a symbol on a day: the vendors disagree
VendorClose(vendor, symbol, d) ==
    (SymCode(symbol) * 100) + (IF vendor = "yahoo" THEN 10 ELSE 20) + d

\* the layouts a vendor frame can have: the name of its index ("" for a
\* RangeIndex) and its columns
YahooShapes == { [index |-> "Date", cols |-> <<"Close">>],
                 [index |-> "Date", cols |-> <<"Volume">>],
                 [index |-> "",     cols |-> <<"Close">>] }

AkshareShapes == { [index |-> "",     cols |-> <<"date", "close", "turnover">>],
                   [index |-> "",     cols |-> <<"date", "turnover">>],
                   [index |-> "date", cols |-> <<"close">>] }

RawFrame(vendor, symbol, shape, dates) ==
    [kind  |-> "frame",
     index |-> shape.index,
     idx   |-> [k \in DOMAIN dates |-> IF shape.index = "" THEN k - 1 ELSE dates[k]],
     cols  |-> shape.cols,
     rows  |-> [k \in DOMAIN dates |->
                  [c \in SeqToSet(shape.cols) |->
                      IF Lower(c) = "date" THEN dates[k]
                      ELSE IF Lower(c) = "close" THEN VendorClose(vendor, symbol, dates[k])
                      ELSE 0]]]

Raise == [kind |-> "raise"]
ReturnsNone == [kind |-> "none"]

YahooResponses(symbol) ==
    {Raise, ReturnsNone}
    \cup { RawFrame("yahoo", symbol, sh, ds) : sh \in YahooShapes, ds \in DateSeqs }

AkshareResponses(symbol) ==
    {Raise, ReturnsNone}
    \cup { RawFrame("akshare", symbol, sh, ds) : sh \in AkshareShapes, ds \in DateSeqs }

\* df is None or df.empty, for a raw response
NoData(resp) == resp.kind = "none" \/ Len(resp.rows) = 0

----------------------------------------------------------------------------
(* fetch_a_indices.py: the vendor adapters.  Each returns [ret, log]: the   *)
(* frame or None, and the log lines printed.                               *)

fetch_yahoo(symbol, resp) ==
    IF resp.kind = "raise" THEN [ret |-> None, log |-> {<<"[Yahoo] error", symbol>>}]
    ELSE IF NoData(resp) THEN [ret |-> None, log |-> {<<"[Yahoo] empty", symbol>>}]
    ELSE LET out == RenameLower(ResetIndex(resp))
         IN IF ~HasCol(out, "date") \/ ~HasCol(out, "close")
            THEN [ret |-> None, log |-> {<<"[Yahoo] missing columns", symbol>>}]
            ELSE [ret |-> Assign(out, "source", "yahoo"), log |-> {}]

fetch_akshare(symbol, resp) ==
    IF resp.kind = "raise" THEN [ret |-> None, log |-> {<<"[akshare] error", symbol>>}]
    ELSE IF NoData(resp) THEN [ret |-> None, log |-> {<<"[akshare] empty", symbol>>}]
    ELSE LET out == RenameLower([cols |-> resp.cols, rows |-> resp.rows])
         IN IF ~HasCol(out, "date")
            \* out["date"] raises KeyError, which the except clause catches
            THEN [ret |-> None, log |-> {<<"[akshare] error", symbol>>}]
            ELSE LET keep == SelectSeq(<<"date", "open", "high", "low", "close", "volume">>,
                                       LAMBDA c : HasCol(out, c))
                 IN [ret |-> FilterStart(Assign(Project(out, keep), "source", "akshare")),
                     log |-> {}]

\* only the first row is tagged with the ticker
TaggedFirstRowOnly(d, name, ticker) ==
    LET t == Assign(Assign(d, "label", name), "ticker", ticker)
    IN [cols |-> t.cols,
        rows |-> [k \in DOMAIN t.rows |->
                    IF k = 1 THEN t.rows[k] ELSE [t.rows[k] EXCEPT !["ticker"] = ""]]]

\* fetch_one, lines 82-85 and 89-92: the series tagged with its label and ticker
Tagged(d, name, ticker) == Assign(Assign(d, "label", name), "ticker", ticker)

\* the fallback's series is tagged with the primary's symbol
SecondaryTickerIsYahoo(e) == e.yahoo_symbol

\* fetch_one, line 91: the ticker of a series that came from the fallback
SecondaryTicker(e) == e.akshare_symbol

\* fetch_one falls back whatever the primary returned
PrimaryIgnored(y) == FALSE

\* fetch_one, line 82: the primary's series is returned and the fallback is skipped
PrimarySucceeded(y) == y # None

\* main, line 104: the index is skipped
Skipped(d) == d = None \/ Empty(d)

\* the run is given up although one index was saved
AtMostOneIndexSaved(fs) == Len(fs) <= 1

\* main, line 115: nothing was saved
NoIndexSaved(fs) == fs = <<>>

RECURSIVE MergeFramesReversed(_, _)
\* the frames are folded last to first
MergeFramesReversed(fs, acc) ==
    IF fs = <<>> THEN acc
    ELSE LET d == fs[Len(fs)]
             key == d.rows[1]["label"]
             ds == Rename(Project(d, <<"date", "close">>), "close", key)
         IN With(IF acc = None THEN ds ELSE With(ds, LAMBDA r : Merge(acc, r)),
                 LAMBDA t : MergeFramesReversed(SubSeq(fs, 1, Len(fs) - 1), t))

RECURSIVE MergeFrames(_, _)
\* main, lines 119-123: fold the frames into one wide table, starting from acc
MergeFrames(fs, acc) ==
    IF fs = <<>> THEN acc
    ELSE LET d == Head(fs)
             key == d.rows[1]["label"]
             ds == Rename(Project(d, <<"date", "close">>), "close", key)
         IN With(IF acc = None THEN ds ELSE With(ds, LAMBDA r : Merge(acc, r)),
                 LAMBDA t : MergeFrames(Tail(fs), t))

----------------------------------------------------------------------------
(* fetch_holdings_and_flows.py *)

\* c.strip().lower() on the headers a holdings file can have
StripLower(c) ==
    CASE c = " Symbol " -> "symbol"
      [] c = "SYMBOL"   -> "symbol"
      [] OTHER          -> c

\* a symbol cell: NaN, or `lead` blanks followed by the text `core`
Cells == { [na |-> TRUE,  lead |-> 0, core |-> ""],
           [na |-> FALSE, lead |-> 0, core |-> "A"],
           [na |-> FALSE, lead |-> 1, core |-> "A"],
           [na |-> FALSE, lead |-> 0, core |-> "B"],
           [na |-> FALSE, lead |-> 1, core |-> ""] }

HoldingsFiles ==
    { [exists |-> FALSE, header |-> "symbol", cells |-> <<>>] }
    \cup { [exists |-> TRUE, header |-> h, cells |-> cs] :
              h \in {"symbol", " Symbol ", "ticker"}, cs \in SeqsUpTo(Cells, MaxCells) }

\* str(x).strip()
Strip(cell) == cell.core

\* Series.unique(): the first occurrence of each value, in order
RECURSIVE Unique(_)
Unique(s) ==
    IF s = <<>> THEN <<>>
    ELSE LET init == Unique(SubSeq(s, 1, Len(s) - 1))
             x == s[Len(s)]
         IN IF x \in SeqToSet(init) THEN init ELSE Append(init, x)

\* load_holdings: [raised, syms]
load_holdings(file) ==
    IF ~file.exists THEN [raised |-> "FileNotFoundError", syms |-> <<>>]
    ELSE IF StripLower(file.header) # "symbol" THEN [raised |-> "ValueError", syms |-> <<>>]
    ELSE LET dropna == SelectSeq(file.cells, LAMBDA c : ~c.na)
             uniq == Unique(dropna)
             stripped == [k \in DOMAIN uniq |-> Strip(uniq[k])]
         IN [raised |-> "", syms |-> SelectSeq(stripped, LAMBDA x : x # "")]

\* the loop goes on whatever the attempt number
RetryAlwaysLeft(n) == TRUE

\* fetch_price, line 48: range(1, max_retries + 1) has an attempt after attempt n
RetryLeft(n) == n + 1 <= max_retries

\* one pass of fetch_price's loop body: [ret, log, raised]
fetch_price_attempt(sym, resp) ==
    IF resp.kind = "raise"
    THEN [ret |-> None, log |-> {<<"fetch attempt failed", sym>>}, raised |-> TRUE]
    ELSE IF NoData(resp)
    THEN [ret |-> None, log |-> {<<"no data returned by yfinance", sym>>}, raised |-> FALSE]
    ELSE LET out == RenameLower(ResetIndex(resp))
         IN IF ~({"date", "close"} \subseteq SeqToSet(out.cols))
            THEN [ret |-> None, log |-> {<<"missing columns after rename", sym>>}, raised |-> FALSE]
            ELSE [ret |-> Assign(out, "symbol", sym), log |-> {}, raised |-> FALSE]

\* the flow vendor's answers: an exception, None, an empty frame, a frame
FlowResponses ==
    { Raise, ReturnsNone,
      [kind |-> "frame", cols |-> <<"flow">>, rows |-> <<>>],
      [kind |-> "frame", cols |-> <<"flow">>, rows |-> <<[flow |-> 7]>>] }

try_fetch_flow(sym, resp) ==
    IF resp.kind = "raise" THEN [ret |-> None, log |-> {<<"flow fetch skipped", sym>>}]
    ELSE IF NoData(resp) THEN [ret |-> None, log |-> {}]
    ELSE [ret |-> Assign([cols |-> resp.cols, rows |-> resp.rows], "symbol", sym), log |-> {}]

\* main, line 100: the symbol's price series is saved and merged
Saved(px) == px # None /\ ~Empty(px)

\* the flow frame is written over the symbol's price file
FlowPathIsPricePath(s) == <<"holdings", s>>

\* main, line 113: where a symbol's flow frame is written
FlowPath(s) == <<"flows", s>>

----------------------------------------------------------------------------
(* Bookkeeping shared by the actions *)

EmptyMap == [x \in {} |-> 0]

\* to_csv(path): the file is created or overwritten
Write(fs, path, content) ==
    [p \in (DOMAIN fs) \cup {path} |-> IF p = path THEN content ELSE fs[p]]

CallCount(k) == IF k \in DOMAIN calls THEN calls[k] ELSE 0

Called(k) == [x \in (DOMAIN calls) \cup {k} |-> IF x = k THEN CallCount(k) + 1 ELSE calls[x]]

\* the columns of a raw response once normalised the way the vendor's adapter does
NormCols(vendor, resp) ==
    IF vendor = "akshare" THEN { Lower(c) : c \in SeqToSet(resp.cols) }
    ELSE { Lower(c) : c \in SeqToSet(resp.cols) \cup {IF resp.index = "" THEN "index" ELSE resp.index} }

\* what a raw response is, whatever the adapter makes of it
Classify(vendor, resp) ==
    IF resp.kind = "raise" THEN "raise"
    ELSE IF NoData(resp) THEN "empty"
    ELSE IF {"date", "close"} \subseteq NormCols(vendor, resp) THEN "valid"
    ELSE "missing"

Answered(k, resp) ==
    [x \in (DOMAIN verdicts) \cup {k} |-> IF x = k THEN Classify(k[1], resp) ELSE verdicts[x]]

\* what an adapter handed back: nothing, a frame without rows, a series
Outcome(d) == IF d = None THEN "None" ELSE IF Empty(d) THEN "empty" ELSE "series"

Verdict(k) == IF k \in DOMAIN verdicts THEN verdicts[k] ELSE "not called"

----------------------------------------------------------------------------
(* The runs *)

Start ==
    /\ idx = 1
    /\ ydf = None
    /\ df = None
    /\ frames = <<>>
    /\ merged = None
    /\ saved_count = 0
    /\ syms = <<>>
    /\ attempt = 1
    /\ files = EmptyMap
    /\ logs = {}
    /\ calls = EmptyMap
    /\ verdicts = EmptyMap
    /\ exit = ""
    /\ folded = <<>>
    /\ returned = <<>>

\* main, lines 99 and 90-91, makedirs(exist_ok=True): the output directory is
\* new, or it holds what an earlier run wrote when every instrument succeeded
EarlierOutputs(p) ==
    IF p = "index"
    THEN { {}, { <<"indices", Indices[k].name>> : k \in DOMAIN Indices }
                  \cup { <<"", "indices_merged.csv">> } }
    ELSE { {}, { <<"holdings", "A">>, <<"flows", "A">>, <<"", "ALL_TICKERS_MASTER.csv">> } }

\* python scripts/fetch_a_indices.py
InitIndex ==
    /\ pipeline = "index" /\ pc = "fetch_one" /\ Start
    /\ stale \in EarlierOutputs("index")

\* python scripts/fetch_holdings_and_flows.py
InitHoldings ==
    /\ pipeline = "holdings" /\ pc = "load_holdings" /\ Start
    /\ stale \in EarlierOutputs("holdings")

Init == InitIndex \/ InitHoldings

\* fetch_one, lines 81-85: the primary vendor is called
FetchYahoo ==
    /\ pipeline = "index" /\ pc = "fetch_one"
    /\ LET e == Indices[idx]
       IN \E resp \in YahooResponses(e.yahoo_symbol) :
            LET r == fetch_yahoo(e.yahoo_symbol, resp)
            IN /\ calls' = Called(<<"yahoo", e.yahoo_symbol>>)
               /\ verdicts' = Answered(<<"yahoo", e.yahoo_symbol>>, resp)
               /\ logs' = logs \cup r.log
               /\ ydf' = r.ret
               /\ IF PrimarySucceeded(r.ret)
                  THEN /\ df' = Tagged(r.ret, e.name, e.yahoo_symbol)
                       /\ returned' = Append(returned, Outcome(df'))
                       /\ pc' = "main_loop"
                  ELSE /\ df' = None
                       /\ pc' = "fallback"
                       /\ UNCHANGED returned
    /\ UNCHANGED <<pipeline, stale, idx, frames, merged, saved_count, syms, attempt, files, exit, folded>>

\* fetch_one, lines 88-96: the secondary vendor is called
FetchAkshare ==
    /\ pipeline = "index" /\ pc = "fallback"
    /\ LET e == Indices[idx]
       IN \E resp \in AkshareResponses(e.akshare_symbol) :
            LET r == fetch_akshare(e.akshare_symbol, resp)
            IN /\ calls' = Called(<<"akshare", e.akshare_symbol>>)
               /\ verdicts' = Answered(<<"akshare", e.akshare_symbol>>, resp)
               /\ IF r.ret # None
                  THEN /\ df' = Tagged(r.ret, e.name, SecondaryTicker(e))
                       /\ logs' = logs \cup r.log
                  ELSE /\ df' = None
                       /\ logs' = logs \cup r.log \cup {<<"[WARN] both failed", e.name>>}
    /\ returned' = Append(returned, Outcome(df'))
    /\ pc' = "main_loop"
    /\ UNCHANGED <<pipeline, stale, idx, ydf, frames, merged, saved_count, syms, attempt, files, exit, folded>>

\* main, lines 104-113: the body of the loop over INDEX_MAP after fetch_one
SaveIndex ==
    /\ pipeline = "index" /\ pc = "main_loop"
    /\ LET e == Indices[idx]
           next == IF idx + 1 > Len(Indices) THEN "merge" ELSE "fetch_one"
       IN IF Skipped(df)
          THEN /\ logs' = logs \cup {<<"[SKIP]", e.name>>}
               /\ pc' = next /\ idx' = idx + 1
               /\ UNCHANGED <<files, frames, exit>>
          ELSE /\ files' = Write(files, <<"indices", e.name>>, SortValues(df))
               /\ IF {"date", "close", "label"} \subseteq SeqToSet(df.cols)
                  THEN /\ frames' = Append(frames, Project(df, <<"date", "close", "label">>))
                       /\ logs' = logs \cup {<<"[OK] Saved", e.name>>}
                       /\ pc' = next /\ idx' = idx + 1
                       /\ UNCHANGED exit
                  ELSE \* df[["date","close","label"]] raises KeyError: the run dies
                       /\ pc' = "exited" /\ exit' = "KeyError"
                       /\ UNCHANGED <<frames, logs, idx>>
    /\ ydf' = None /\ df' = None
    /\ UNCHANGED <<pipeline, stale, merged, saved_count, syms, attempt, calls, verdicts, folded, returned>>

\* main, lines 115-127
MergeIndices ==
    /\ pipeline = "index" /\ pc = "merge"
    /\ IF NoIndexSaved(frames)
       THEN /\ exit' = "SystemExit"
            /\ UNCHANGED <<merged, files, logs, folded>>
       ELSE /\ \E table \in {MergeFrames(frames, None)} : \E sorted \in {SortValues(table)} :
                  /\ merged' = sorted
                  /\ files' = Write(files, <<"", "indices_merged.csv">>, sorted)
            /\ logs' = logs \cup {<<"[OK] Saved indices_merged.csv", "">>}
            /\ folded' = [k \in DOMAIN frames |-> Project(frames[k], <<"date", "close">>)]
            /\ exit' = "ok"
    /\ pc' = "exited"
    /\ UNCHANGED <<pipeline, stale, idx, ydf, df, frames, saved_count, syms, attempt, calls, verdicts, returned>>

\* main, line 93: load_holdings reads the holdings file
LoadHoldings ==
    /\ pipeline = "holdings" /\ pc = "load_holdings"
    /\ \E file \in HoldingsFiles :
         LET r == load_holdings(file)
         IN IF r.raised # ""
            THEN /\ exit' = r.raised /\ pc' = "exited"
                 /\ UNCHANGED <<syms, logs>>
            ELSE /\ syms' = r.syms
                 /\ logs' = logs \cup {<<"Loaded symbols", "">>}
                 /\ pc' = IF r.syms = <<>> THEN "finish" ELSE "fetch_price"
                 /\ UNCHANGED exit
    /\ UNCHANGED <<pipeline, stale, idx, ydf, df, frames, merged, saved_count, attempt, files, calls, verdicts, folded, returned>>

\* fetch_price, lines 48-66: one attempt against the price vendor
FetchPrice ==
    /\ pipeline = "holdings" /\ pc = "fetch_price"
    /\ attempt <= max_retries
    /\ LET s == syms[idx]
       IN \E resp \in YahooResponses(s) :
            LET r == fetch_price_attempt(s, resp)
            IN /\ calls' = Called(<<"yahoo", s>>)
               /\ verdicts' = Answered(<<"yahoo", s>>, resp)
               /\ logs' = logs \cup r.log
               /\ df' = r.ret
               /\ IF r.raised /\ RetryLeft(attempt)
                  THEN attempt' = attempt + 1 /\ pc' = "fetch_price" /\ UNCHANGED returned
                  ELSE /\ attempt' = 1 /\ pc' = "main_loop"
                       /\ returned' = Append(returned, Outcome(df'))
    /\ UNCHANGED <<pipeline, stale, idx, ydf, frames, merged, saved_count, syms, files, exit, folded>>

\* main, lines 100-107: the price series is saved and folded into the merge
SaveHolding ==
    /\ pipeline = "holdings" /\ pc = "main_loop"
    /\ LET s == syms[idx]
       IN IF Saved(df)
          THEN /\ files' = Write(files, <<"holdings", s>>, df)
               /\ saved_count' = saved_count + 1
               /\ \E ds \in {Rename(Project(df, <<"date", "close">>), "close", s)} :
                     merged' = IF merged = None THEN ds ELSE Merge(merged, ds)
               /\ folded' = Append(folded, Project(df, <<"date", "close">>))
          ELSE UNCHANGED <<files, saved_count, merged, folded>>
    /\ pc' = "flow"
    /\ df' = None
    /\ UNCHANGED <<pipeline, stale, idx, ydf, frames, syms, attempt, logs, calls, verdicts, exit, returned>>

\* main, lines 110-113: the optional flow fetch, then the next symbol
FetchFlow ==
    /\ pipeline = "holdings" /\ pc = "flow"
    /\ LET s == syms[idx]
       IN \E resp \in FlowResponses :
            LET r == try_fetch_flow(s, resp)
            IN /\ calls' = Called(<<"flow", s>>)
               /\ logs' = logs \cup r.log
               /\ files' = IF r.ret # None /\ ~Empty(r.ret)
                           THEN Write(files, FlowPath(s), r.ret)
                           ELSE files
    /\ idx' = idx + 1
    /\ pc' = IF idx + 1 > Len(syms) THEN "finish" ELSE "fetch_price"
    /\ UNCHANGED <<pipeline, stale, ydf, df, frames, merged, saved_count, syms, attempt, verdicts, exit, folded, returned>>

\* main, lines 115-121
FinishHoldings ==
    /\ pipeline = "holdings" /\ pc = "finish"
    /\ IF merged # None
       THEN /\ \E sorted \in {SortValues(merged)} :
                  /\ merged' = sorted
                  /\ files' = Write(files, <<"", "ALL_TICKERS_MASTER.csv">>, sorted)
            /\ logs' = logs \cup {<<"Saved ALL_TICKERS_MASTER.csv", "">>,
                                  <<"Saved holding OHLCV files", "">>, <<"Done.", "">>}
       ELSE /\ logs' = logs \cup {<<"Saved holding OHLCV files", "">>, <<"Done.", "">>}
            /\ UNCHANGED <<merged, files>>
    /\ exit' = "ok"
    /\ pc' = "exited"
    /\ UNCHANGED <<pipeline, stale, idx, ydf, df, frames, saved_count, syms, attempt, calls, verdicts, folded, returned>>

NextIndex ==
    \/ FetchYahoo
    \/ FetchAkshare
    \/ SaveIndex
    \/ MergeIndices

NextHoldings ==
    \/ LoadHoldings
    \/ FetchPrice
    \/ SaveHolding
    \/ FetchFlow
    \/ FinishHoldings

Next == NextIndex \/ NextHoldings

\* either script
Spec == Init /\ [][Next]_vars

\* the index pipeline alone
SpecIndex == InitIndex /\ [][NextIndex]_vars

\* the holdings pipeline alone
SpecHoldings == InitHoldings /\ [][NextHoldings]_vars

\* either script, run by an interpreter that takes the next step whenever there
\* is one: every vendor call returns or raises
FairSpec == Spec /\ WF_vars(Next)

----------------------------------------------------------------------------
(* Vocabulary of the properties *)

Failed == {"raise", "empty", "missing"}

YahooKey(k) == <<"yahoo", Indices[k].yahoo_symbol>>
AkshareKey(k) == <<"akshare", Indices[k].akshare_symbol>>

InstrumentFiles == { p \in DOMAIN files : p[1] \in {"indices", "holdings"} }

MergedFile == IF pipeline = "index" THEN <<"", "indices_merged.csv">>
              ELSE <<"", "ALL_TICKERS_MASTER.csv">>

MergedWritten == MergedFile \in DOMAIN files

UniqueDates(d) == Cardinality(DatesOf(d)) = Len(d.rows)

----------------------------------------------------------------------------
(* C1: in the index pipeline, an index whose primary vendor (Yahoo)        *)
(* answered with a non-empty frame holding date and close never has its    *)
(* secondary vendor (akshare) called.                                      *)
C1_PrimaryValidNoFallback ==
    \A k \in DOMAIN Indices :
        Verdict(YahooKey(k)) = "valid" => CallCount(AkshareKey(k)) = 0

\* a finished run in which one index was served by Yahoo and another fell back
C1_Witness ==
    /\ exit = "ok"
    /\ \E k \in DOMAIN Indices :
          Verdict(YahooKey(k)) = "valid" /\ CallCount(AkshareKey(k)) = 0
    /\ \E k \in DOMAIN Indices : CallCount(AkshareKey(k)) = 1

----------------------------------------------------------------------------
(* C2: in the index pipeline, when the primary vendor failed (exception,   *)
(* empty, missing column) and the secondary answered with a valid frame,   *)
(* fetch_one returns a series, and the series it returns after a failed    *)
(* primary has source "akshare" on every row and the akshare symbol as     *)
(* ticker.                                                                 *)
C2_FallbackTagged ==
    (pipeline = "index" /\ pc = "main_loop" /\ Verdict(YahooKey(idx)) \in Failed) =>
        /\ Verdict(AkshareKey(idx)) = "valid" => df # None
        /\ df # None =>
              /\ HasCol(df, "source") /\ HasCol(df, "ticker")
              /\ \A j \in DOMAIN df.rows :
                    /\ df.rows[j]["source"] = "akshare"
                    /\ df.rows[j]["ticker"] = Indices[idx].akshare_symbol

\* fetch_one has returned a two-row akshare series after Yahoo lacked a column
C2_Witness ==
    /\ pipeline = "index" /\ pc = "main_loop"
    /\ Verdict(YahooKey(idx)) = "missing"
    /\ Verdict(AkshareKey(idx)) = "valid"
    /\ df # None /\ Len(df.rows) = 2

----------------------------------------------------------------------------
(* C3: every per-instrument file written holds only rows with              *)
(* date >= START.                                                          *)
C3_PersistedFromStart ==
    \A p \in InstrumentFiles :
        \A j \in DOMAIN files[p].rows : files[p].rows[j]["date"] >= START

----------------------------------------------------------------------------
(* C4: a series that an adapter hands to the orchestrator has both the     *)
(* date and the close column.                                              *)
C4_SeriesHasDateAndClose ==
    df # None => HasCol(df, "date") /\ HasCol(df, "close")

----------------------------------------------------------------------------
(* C5: an adapter hands back either None or a series with at least one     *)
(* row.                                                                    *)
C5_NoneOrNonEmpty ==
    df # None => Len(df.rows) > 0

----------------------------------------------------------------------------
(* C6: the merged file's dates are the union of the dates of the folded    *)
(* series; the k-th instrument column holds, in every row, a close the     *)
(* k-th series has on the row's date, or is absent when the series has no  *)
(* row of that date; and every observation of every series is in the       *)
(* table.                                                                  *)
C6_MergeIsOuterJoin ==
    MergedWritten =>
        LET m == files[MergedFile]
        IN /\ Len(m.cols) = Len(folded) + 1
           /\ m.cols[1] = "date"
           /\ DatesOf(m) = UNION { DatesOf(folded[k]) : k \in DOMAIN folded }
           /\ \A k \in DOMAIN folded :
                LET c == m.cols[k + 1]
                    ser == folded[k]
                IN /\ \A j \in DOMAIN m.rows :
                         IF m.rows[j]["date"] \in DatesOf(ser)
                         THEN \E i \in DOMAIN ser.rows :
                                 /\ ser.rows[i]["date"] = m.rows[j]["date"]
                                 /\ ser.rows[i]["close"] = m.rows[j][c]
                         ELSE m.rows[j][c] = NaN
                   /\ \A i \in DOMAIN ser.rows :
                         \E j \in DOMAIN m.rows :
                            /\ m.rows[j]["date"] = ser.rows[i]["date"]
                            /\ m.rows[j][c] = ser.rows[i]["close"]

\* two holdings, one with the days START-1 and START, the other with START and
\* START+1: three rows, one of them with both columns populated
C6_Witness ==
    /\ pipeline = "holdings" /\ MergedWritten
    /\ Len(folded) = 2
    /\ DatesOf(folded[1]) = {START - 1, START}
    /\ DatesOf(folded[2]) = {START, START + 1}
    /\ LET m == files[MergedFile]
       IN /\ Len(m.rows) = 3
          /\ Cardinality({ j \in DOMAIN m.rows :
                             m.rows[j][m.cols[2]] # NaN /\ m.rows[j][m.cols[3]] # NaN }) = 1

----------------------------------------------------------------------------
(* C7 as stated: the rows of a merged file are strictly ascending by date. *)
C7_StrictlyAscending ==
    MergedWritten =>
        LET m == files[MergedFile]
        IN \A j \in 1..(Len(m.rows) - 1) : m.rows[j]["date"] < m.rows[j + 1]["date"]

(* C7 amended: the rows of a merged file are ascending by date, and        *)
(* strictly ascending, no date twice, when no folded series holds a date   *)
(* twice.                                                                  *)
C7_AscendingAndStrictIfUnique ==
    MergedWritten =>
        LET m == files[MergedFile]
        IN /\ \A j \in 1..(Len(m.rows) - 1) : m.rows[j]["date"] <= m.rows[j + 1]["date"]
           /\ (\A k \in DOMAIN folded : UniqueDates(folded[k])) =>
                 \A j \in 1..(Len(m.rows) - 1) : m.rows[j]["date"] < m.rows[j + 1]["date"]

\* a merged index table of three rows, the first series having come in descending order
C7_Witness ==
    /\ pipeline = "index" /\ MergedWritten
    /\ Len(folded) = 2
    /\ \A k \in DOMAIN folded : UniqueDates(folded[k])
    /\ Len(folded[1].rows) = 2
    /\ folded[1].rows[1]["date"] > folded[1].rows[2]["date"]
    /\ Len(files[MergedFile].rows) = 3

----------------------------------------------------------------------------
----------------------------------------------------------------------------
(* C9: when a run has ended (the holdings file having loaded) and some     *)
(* instrument failed every vendor and every retry, every later instrument  *)
(* was fetched all the same, every instrument that came back as a series   *)
(* has its file, and the merged file is written with one column for each   *)
(* of them.                                                                *)
FailedEveryVendor(k) ==
    IF pipeline = "index"
    THEN Verdict(YahooKey(k)) \in Failed /\ Verdict(AkshareKey(k)) \in Failed
    ELSE k \in DOMAIN returned /\ returned[k] = "None"

Fetched(k) ==
    IF pipeline = "index" THEN CallCount(YahooKey(k)) > 0
    ELSE CallCount(<<"yahoo", syms[k]>>) > 0

Instruments == IF pipeline = "index" THEN DOMAIN Indices ELSE DOMAIN syms

Succeeded(k) == k \in DOMAIN returned /\ returned[k] = "series"

InstrumentFile(k) ==
    IF pipeline = "index" THEN <<"indices", Indices[k].name>> ELSE <<"holdings", syms[k]>>

C9_FailureDoesNotStopRun ==
    (/\ pc = "exited" /\ exit \notin {"FileNotFoundError", "ValueError"}
     /\ \E k \in Instruments : FailedEveryVendor(k)) =>
        /\ \A k \in Instruments :
              FailedEveryVendor(k) => \A j \in Instruments : j > k => Fetched(j)
        /\ \A k \in Instruments : Succeeded(k) => InstrumentFile(k) \in DOMAIN files
        /\ (\E k \in Instruments : Succeeded(k)) =>
              /\ MergedWritten
              /\ Len(files[MergedFile].cols)
                    = 1 + Cardinality({ k \in Instruments : Succeeded(k) })

----------------------------------------------------------------------------
(* C10: a run ends with a fatal error only when the holdings file is       *)
(* missing or lacks the symbol column, or when no index was saved; every   *)
(* other run ends successfully, with a log line for each instrument it     *)
(* skipped.                                                                *)
SkipLogged(k) ==
    IF pipeline = "index" THEN <<"[SKIP]", Indices[k].name>> \in logs
    ELSE \E tag \in {"fetch attempt failed", "no data returned by yfinance",
                      "missing columns after rename"} : <<tag, syms[k]>> \in logs

C10_FatalOnlyWhen ==
    pc = "exited" =>
        /\ \/ exit = "ok"
           \/ pipeline = "holdings" /\ exit \in {"FileNotFoundError", "ValueError"}
           \/ pipeline = "index" /\ exit = "SystemExit" /\ InstrumentFiles = {}
        /\ exit = "ok" => \A k \in Instruments : ~Succeeded(k) => SkipLogged(k)

----------------------------------------------------------------------------
(* C11: in the holdings pipeline, fetch_price hands back a failure (None)  *)
(* for a symbol only on its last attempt, attempt number max_retries:      *)
(* every earlier attempt that found the vendor unavailable (empty          *)
(* response, missing column, exception) is followed by another attempt.    *)
C11_FailureOnlyAfterAllRetries ==
    [][(/\ pipeline = "holdings" /\ pc = "fetch_price"
        /\ pc' = "main_loop" /\ df' = None) => attempt = max_retries]_vars

----------------------------------------------------------------------------
(* C12: in the holdings pipeline the flow vendor is called once for every  *)
(* entry of the holdings list, never more, whatever fetch_price returned   *)
(* for it; and the step that makes the flow call, whatever the vendor      *)
(* answers, leaves the price files, saved_count and the merge accumulator  *)
(* as they were and does not end the run.                                  *)
Occurrences(s) == Cardinality({ k \in DOMAIN syms : syms[k] = s })

PriceFiles(fs) == [p \in { q \in DOMAIN fs : q[1] = "holdings" } |-> fs[p]]

FlowCalledOncePerEntry ==
    pipeline = "holdings" =>
        /\ \A s \in SeqToSet(syms) : CallCount(<<"flow", s>>) <= Occurrences(s)
        /\ \A k \in DOMAIN syms :
              k < idx => CallCount(<<"flow", syms[k]>>)
                            = Cardinality({ j \in 1..(idx - 1) : syms[j] = syms[k] })
        /\ exit = "ok" =>
              \A s \in SeqToSet(syms) : CallCount(<<"flow", s>>) = Occurrences(s)

FlowStepLeavesPriceResults ==
    (pipeline = "holdings" /\ pc = "flow") =>
        /\ PriceFiles(files') = PriceFiles(files)
        /\ saved_count' = saved_count
        /\ merged' = merged
        /\ folded' = folded
        /\ exit' = "" /\ pc' \in {"fetch_price", "finish"}

----------------------------------------------------------------------------
(* C13: no run ends with an exception that a vendor's response caused:     *)
(* a run is still going, or it ended normally, or with the SystemExit that *)
(* main raises itself, or with the error load_holdings raises for the      *)
(* holdings file.                                                          *)
C13_NoVendorExceptionEscapes ==
    exit \in {"", "ok", "SystemExit", "FileNotFoundError", "ValueError"}

----------------------------------------------------------------------------
(* C14: in the index pipeline every per-index file holds the rows of one   *)
(* vendor: all its rows carry the same source and the same ticker, either  *)
(* Yahoo with the Yahoo symbol or akshare with the akshare symbol, and     *)
(* every close in it is that vendor's quote; and once the merged table is  *)
(* written the index's column holds exactly the closes of those rows, by   *)
(* date, and is absent on the other dates.                                 *)
OneVendor(k, f) ==
    /\ HasCol(f, "source") /\ HasCol(f, "ticker")
    /\ \E v \in { <<"yahoo", Indices[k].yahoo_symbol>>,
                  <<"akshare", Indices[k].akshare_symbol>> } :
          \A j \in DOMAIN f.rows :
             /\ f.rows[j]["source"] = v[1]
             /\ f.rows[j]["ticker"] = v[2]
             /\ HasCol(f, "close") =>
                   f.rows[j]["close"] = VendorClose(v[1], v[2], f.rows[j]["date"])

ColumnFromFile(m, c, f) ==
    /\ \A j \in DOMAIN m.rows :
          IF m.rows[j]["date"] \in DatesOf(f)
          THEN \E i \in DOMAIN f.rows :
                  /\ f.rows[i]["date"] = m.rows[j]["date"]
                  /\ f.rows[i]["close"] = m.rows[j][c]
          ELSE m.rows[j][c] = NaN
    /\ \A i \in DOMAIN f.rows :
          \E j \in DOMAIN m.rows :
             /\ m.rows[j]["date"] = f.rows[i]["date"]
             /\ m.rows[j][c] = f.rows[i]["close"]

C14_OneVendorPerIndex ==
    pipeline = "index" =>
        \A k \in DOMAIN Indices :
            <<"indices", Indices[k].name>> \in DOMAIN files =>
                LET f == files[<<"indices", Indices[k].name>>]
                IN /\ OneVendor(k, f)
                   /\ MergedWritten =>
                         /\ HasCol(files[MergedFile], Indices[k].name)
                         /\ ColumnFromFile(files[MergedFile], Indices[k].name, f)

\* a merged table of two indices, the first served by Yahoo and the second by
\* akshare, each with two rows
C14_Witness ==
    /\ pipeline = "index" /\ MergedWritten
    /\ Len(files[MergedFile].cols) = 3
    /\ LET f1 == files[<<"indices", Indices[1].name>>]
           f2 == files[<<"indices", Indices[2].name>>]
       IN /\ Len(f1.rows) = 2 /\ f1.rows[1]["source"] = "yahoo"
          /\ Len(f2.rows) = 2 /\ f2.rows[1]["source"] = "akshare"

----------------------------------------------------------------------------
(* C15: when a run has ended (the holdings file having loaded), the        *)
(* instrument columns of the merged table are the names of the instruments *)
(* whose file was written, which are the instruments whose fetch returned  *)
(* a series; no name is in two columns, and in the holdings pipeline       *)
(* saved_count is the number of instrument columns.                        *)
InstrumentName(k) == IF pipeline = "index" THEN Indices[k].name ELSE syms[k]

MergedColumns ==
    IF MergedWritten
    THEN SelectSeq(files[MergedFile].cols, LAMBDA c : c # "date")
    ELSE <<>>

WrittenInstruments == { InstrumentName(k) : k \in { j \in Instruments : InstrumentFile(j) \in DOMAIN files } }

SucceededInstruments == { InstrumentName(k) : k \in { j \in Instruments : Succeeded(j) } }

C15_ColumnsAreSavedInstruments ==
    (pc = "exited" /\ exit \notin {"FileNotFoundError", "ValueError"}) =>
        /\ SeqToSet(MergedColumns) = WrittenInstruments
        /\ WrittenInstruments = SucceededInstruments
        /\ Len(MergedColumns) = Cardinality(SeqToSet(MergedColumns))
        /\ pipeline = "holdings" => saved_count = Len(MergedColumns)

----------------------------------------------------------------------------
(* C16: the merged table is a function of the series the fetches returned, *)
(* taken in list order: it is the left-to-right outer join of the series   *)
(* of the successful instruments, each under its instrument's name, sorted *)
(* by date; so its columns are date followed by one column for each        *)
(* successful instrument, in the order of INDEX_MAP or of the loaded       *)
(* holdings list, whichever instruments were skipped.                      *)
SucceededInOrder ==
    LET n == IF pipeline = "index" THEN Len(Indices) ELSE Len(syms)
        ks == SelectSeq([k \in 1..n |-> k], Succeeded)
    IN [j \in DOMAIN ks |-> InstrumentName(ks[j])]

RECURSIVE Refold(_, _, _)
Refold(series, names, acc) ==
    IF series = <<>> THEN acc
    ELSE LET ds == Rename(Head(series), "close", Head(names))
         IN Refold(Tail(series), Tail(names), IF acc = None THEN ds ELSE Merge(acc, ds))

C16_DeterministicInListOrder ==
    MergedWritten =>
        LET m == files[MergedFile]
            names == SucceededInOrder
        IN /\ Len(folded) = Len(names)
           /\ m = SortValues(Refold(folded, names, None))
           /\ Len(m.cols) = Len(names) + 1
           /\ m.cols[1] = "date"
           /\ \A k \in DOMAIN names :
                 m.cols[k + 1] \in { names[k], Suffixed(names[k], "_x"), Suffixed(names[k], "_y") }

\* a holdings list B, A whose two fetches both succeeded: the columns are
\* date, B, A, the order of the list
C16_Witness ==
    /\ pipeline = "holdings" /\ MergedWritten
    /\ syms = <<"B", "A">>
    /\ files[MergedFile].cols = <<"date", "B", "A">>
    /\ Len(files[MergedFile].rows) >= 2

----------------------------------------------------------------------------
(* C17: after a run has ended successfully every file that the output      *)
(* directory holds was written by that run: none of the files an earlier   *)
(* run left there is still in place.                                       *)
C17_NoStaleFileAfterRun ==
    exit = "ok" => stale \subseteq DOMAIN files

----------------------------------------------------------------------------
(* C18: every run ends, and the vendor calls it makes are bounded: in the  *)
(* index pipeline at most one Yahoo and one akshare call for each index;   *)
(* in the holdings pipeline, for each entry of the list, at most           *)
(* max_retries price calls and, once the entry is done, exactly one flow   *)
(* call; and fetch_price makes no call after an attempt that gave it a     *)
(* series or that was attempt number max_retries.                          *)
Processed(s) == Cardinality({ j \in DOMAIN syms : j <= idx /\ syms[j] = s })

Done(s) == Cardinality({ j \in DOMAIN syms : j < idx /\ syms[j] = s })

CallsBounded ==
    /\ pipeline = "index" =>
          \A k \in DOMAIN Indices :
             CallCount(YahooKey(k)) <= 1 /\ CallCount(AkshareKey(k)) <= 1
    /\ pipeline = "holdings" =>
          /\ pc = "fetch_price" => attempt <= max_retries
          /\ \A s \in SeqToSet(syms) :
                /\ CallCount(<<"yahoo", s>>) <= max_retries * Processed(s)
                /\ CallCount(<<"flow", s>>) = Done(s)

NoCallAfterReturn ==
    (pipeline = "holdings" /\ pc = "fetch_price" /\ (df' # None \/ attempt = max_retries))
        => pc' = "main_loop"

----------------------------------------------------------------------------
(* C19: the list load_holdings returned holds no empty symbol and no       *)
(* symbol twice, so no symbol is fetched for two entries and the merge     *)
(* accumulator never holds two columns of one symbol.                      *)
C19_SymbolsDistinct ==
    pipeline = "holdings" =>
        /\ \A k \in DOMAIN syms : syms[k] # ""
        /\ \A j, k \in DOMAIN syms : j # k => syms[j] # syms[k]
        /\ merged # None =>
              \A c \in SeqToSet(merged.cols) : c \notin {"A_x", "A_y", "B_x", "B_y"}

====
